---- MODULE Spec2Model ----
\* Model of src/tui/light_windows.go: the Windows console adapter of the
\* light renderer (capability probe, console mode save/apply/restore, the
\* background key reader goroutine, geometry queries and getch).
\*
\* Console modes (uint32 bit masks in the source) are modelled as sets of
\* flag names: a|b is \cup, a&b is \cap.  The zero mask is {}.
\* windows.SetConsoleMode calls whose result the source discards are modelled
\* as applying the mode; the calls whose error the source inspects
\* (the probe's provisional set, every GetConsoleMode, GetConsoleScreenBufferInfo,
\* util.Read) take their outcome as a nondeterministic input.
EXTENDS Integers, Sequences, FiniteSets, TLC

\* ---------------------------------------------------------------- bounds
MaxCounter == 2      \* restoreTerminal calls
MaxRead == 4         \* successful device reads
ChanCap == 2         \* stand-in for the channel capacity (1024 in the source)
MaxReaders == 2      \* reader goroutines ever started (setupTerminal runs)

\* ------------------------------------------------------------- constants
timeoutInterval == 10
defaultWidth  == 80
defaultHeight == 24

VTI == "ENABLE_VIRTUAL_TERMINAL_INPUT"
VTP == "ENABLE_VIRTUAL_TERMINAL_PROCESSING"

consoleFlagsInput  == {VTI, "ENABLE_PROCESSED_INPUT", "ENABLE_EXTENDED_FLAGS"}
consoleFlagsOutput == {VTP, "ENABLE_PROCESSED_OUTPUT", "DISABLE_NEWLINE_AUTO_RETURN"}

\* ------------------------------------------------- environment input sets
\* modes the console may have before the program touches it
\* (the screen buffer behind windows.Stderr is kept apart from the one behind
\* the CONOUT$ handle; both start out in the same mode)
Consoles0 ==
    { [in  |-> {"ENABLE_PROCESSED_INPUT", "ENABLE_LINE_INPUT"},
       out |-> {"ENABLE_PROCESSED_OUTPUT", "ENABLE_WRAP_AT_EOL_OUTPUT"}],
      [in  |-> {"ENABLE_PROCESSED_INPUT", "ENABLE_LINE_INPUT", VTI},
       out |-> {"ENABLE_PROCESSED_OUTPUT", VTP}] }
\* what the user types, repeated for as long as the device is read:
\* ESC '[' 'A' (an arrow key)
KeyStreams == { << 27, 91, 65 >> }
\* values of the environment variables read by DefaultTheme
ConEmuPIDs      == {"", "4242"}
TcellTruecolors == {"", "disable"}
\* values of COLUMNS / LINES (0 stands for unset) and of the buffer info
EnvInts  == {0, 100}
ZeroInfo == [Left |-> 0, Top |-> 0, Right |-> 0, Bottom |-> 0]
ZeroPos  == [X |-> 0, Y |-> 0]
Windows  == { [Left |-> 0, Top |-> 0, Right |-> 79,  Bottom |-> 24],
              [Left |-> 2, Top |-> 5, Right |-> 119, Bottom |-> 34] }
Cursors  == { [X |-> 0, Y |-> 0], [X |-> 3, Y |-> 7] }
\* max-height policies the renderer may have been given (0: no limit)
HeightLimits == {0, 10}

VARIABLES
    stderrMode,       \* console mode behind windows.Stderr
    outMode,          \* console mode behind r.outHandle (CONOUT$)
    inMode,           \* console mode behind r.inHandle (CONIN$)
    origStateOutput,  \* r.origStateOutput
    origStateInput,   \* r.origStateInput
    keys,             \* the byte stream the input device delivers
    inited,           \* initPlatform has returned nil (handles and channel exist)
    ttyinChannel,     \* r.ttyinChannel: buffered channel of bytes
    counter,          \* package variable counter
    mutex,            \* r.mutex: 0 when free, else the index of the reader holding it
    readers,          \* the goroutines started by setupTerminal, in start order
    pc,               \* where the calling goroutine is: "idle", "restoreTerminal", "getch"
    nonblock,         \* argument of the getch call in progress
    ret,              \* operation last returned to the caller, its inputs and result
    pushed,           \* history: bytes sent on ttyinChannel, in send order
    stale,            \* history: how many bytes at the head of ttyinChannel were
                      \*          sent before the latest restoreTerminal
    returned,         \* history: bytes returned by getch, in return order
    nread,            \* history: number of successful device reads
    readFailed        \* history: some device read has failed

vars == << keys, stderrMode, outMode, inMode, origStateOutput, origStateInput, inited,
           ttyinChannel, counter, mutex, readers, pc, nonblock, ret,
           pushed, stale, returned, nread, readFailed >>

deviceVars == << keys, stderrMode, outMode, inMode >>
savedVars   == << origStateOutput, origStateInput >>
histVars    == << pushed, stale, returned, nread, readFailed >>

NoByte == -1

Returned(op, arg, val) == [op |-> op, arg |-> arg, val |-> val]

Init ==
    /\ \E c \in Consoles0 :
          /\ stderrMode = c.out
          /\ outMode = c.out
          /\ inMode = c.in
    /\ keys \in KeyStreams
    /\ origStateOutput = {}
    /\ origStateInput = {}
    /\ inited = FALSE
    /\ ttyinChannel = << >>
    /\ counter = 0
    /\ mutex = 0
    /\ readers = << >>
    /\ pc = "idle"
    /\ nonblock = FALSE
    /\ ret = Returned("none", << >>, << >>)
    /\ pushed = << >>
    /\ stale = 0
    /\ returned = << >>
    /\ nread = 0
    /\ readFailed = FALSE

\* ------------------------------------------------------ capability probe
\* IsLightRendererSupported as a function of the mode of stderr and of the
\* outcomes of its three inspected system calls; yields the result and the
\* mode it leaves behind.
IsLightRendererSupportedOn(oldState, get1ok, setok, get2ok) ==
    IF ~get1ok
    THEN [result |-> FALSE, mode |-> oldState]
    ELSE LET afterSet   == IF setok THEN oldState \cup {VTP} ELSE oldState
             checkState == afterSet
         IN  IF ~get2ok \/ (checkState \cap {VTP}) # {VTP}
             THEN [result |-> FALSE, mode |-> afterSet]
             ELSE [result |-> setok, mode |-> oldState]

IsLightRendererSupported(get1ok, setok, get2ok) ==
    /\ pc = "idle"
    /\ LET p == IsLightRendererSupportedOn(stderrMode, get1ok, setok, get2ok)
       IN  /\ stderrMode' = p.mode
           /\ ret' = Returned("IsLightRendererSupported",
                              [oldState |-> stderrMode, get1ok |-> get1ok,
                               setok |-> setok, get2ok |-> get2ok],
                              p.result)
    /\ UNCHANGED << keys, outMode, inMode, savedVars, inited, ttyinChannel, counter,
                    mutex, readers, pc, nonblock, histVars >>

\* the theme choice without the ConEmuPID test
ThemeForNoConEmu(supported, conEmuPID, tcellTruecolor) ==
    IF ~supported \/ tcellTruecolor = "disable"
    THEN "Default16"
    ELSE "Dark256"

ThemeFor(supported, conEmuPID, tcellTruecolor) ==
    IF ~supported \/ conEmuPID # "" \/ tcellTruecolor = "disable"
    THEN "Default16"
    ELSE "Dark256"

DefaultTheme(get1ok, setok, get2ok, conEmuPID, tcellTruecolor) ==
    /\ pc = "idle"
    /\ LET p == IsLightRendererSupportedOn(stderrMode, get1ok, setok, get2ok)
       IN  /\ stderrMode' = p.mode
           /\ ret' = Returned("DefaultTheme",
                              [oldState |-> stderrMode, get1ok |-> get1ok,
                               setok |-> setok, get2ok |-> get2ok,
                               ConEmuPID |-> conEmuPID,
                               TCELL_TRUECOLOR |-> tcellTruecolor],
                              ThemeFor(p.result, conEmuPID, tcellTruecolor))
    /\ UNCHANGED << keys, outMode, inMode, savedVars, inited, ttyinChannel, counter,
                    mutex, readers, pc, nonblock, histVars >>

\* ------------------------------------------------------- mode controller
\* the goroutine setupTerminal starts: blocked in util.Read, tagged with the
\* value of counter it was started under
NewReader(current) == [pc |-> "read", current |-> current, b |-> NoByte]

\* initPlatform that does not look at the error of the input mode read
InitPlatformIgnoreInErr(outOk, inOk) ==
    /\ pc = "idle"
    /\ ~inited
    /\ IF ~outOk
       THEN /\ ret' = Returned("initPlatform", [outOk |-> outOk, inOk |-> inOk], "err")
            /\ UNCHANGED << outMode, inMode, savedVars, inited, ttyinChannel, readers >>
       ELSE /\ origStateOutput' = outMode
            /\ origStateInput' = IF inOk THEN inMode ELSE origStateInput
            /\ ttyinChannel' = << >>
            /\ outMode' = consoleFlagsOutput
            /\ inMode' = consoleFlagsInput
            /\ readers' = Append(readers, NewReader(counter))
            /\ inited' = TRUE
            /\ ret' = Returned("initPlatform", [outOk |-> outOk, inOk |-> inOk], "nil")
    /\ UNCHANGED << keys, stderrMode, counter, mutex, pc, nonblock, histVars >>

InitPlatform(outOk, inOk) ==
    /\ pc = "idle"
    /\ ~inited
    /\ IF ~outOk
       THEN /\ ret' = Returned("initPlatform", [outOk |-> outOk, inOk |-> inOk], "err")
            /\ UNCHANGED << keys, outMode, inMode, savedVars, inited, ttyinChannel, readers >>
       ELSE IF ~inOk
       THEN /\ origStateOutput' = outMode
            /\ ret' = Returned("initPlatform", [outOk |-> outOk, inOk |-> inOk], "err")
            /\ UNCHANGED << outMode, inMode, origStateInput, inited, ttyinChannel, readers >>
       ELSE /\ origStateOutput' = outMode
            /\ origStateInput' = inMode
            /\ ttyinChannel' = << >>
            \* r.setupTerminal()
            /\ outMode' = consoleFlagsOutput
            /\ inMode' = consoleFlagsInput
            /\ readers' = Append(readers, NewReader(counter))
            /\ inited' = TRUE
            /\ ret' = Returned("initPlatform", [outOk |-> outOk, inOk |-> inOk], "nil")
    /\ UNCHANGED << keys, stderrMode, counter, mutex, pc, nonblock, histVars >>

ClosePlatform ==
    /\ pc = "idle"
    /\ inited
    /\ outMode' = origStateOutput
    /\ inMode' = origStateInput
    /\ ret' = Returned("closePlatform", << >>, << >>)
    /\ UNCHANGED << keys, stderrMode, savedVars, inited, ttyinChannel, counter, mutex,
                    readers, pc, nonblock, histVars >>

\* setupTerminal that starts a new generation itself
SetupTerminalBump ==
    /\ pc = "idle"
    /\ inited
    /\ Len(readers) < MaxReaders
    /\ outMode' = consoleFlagsOutput
    /\ inMode' = consoleFlagsInput
    /\ counter' = counter + 1
    /\ readers' = Append(readers, NewReader(counter + 1))
    /\ ret' = Returned("setupTerminal", << >>, << >>)
    /\ UNCHANGED << keys, stderrMode, savedVars, inited, ttyinChannel, mutex,
                    pc, nonblock, histVars >>

\* setupTerminal that saves the modes it finds before applying its own
SetupTerminalRecapture ==
    /\ pc = "idle"
    /\ inited
    /\ Len(readers) < MaxReaders
    /\ origStateOutput' = outMode
    /\ origStateInput' = inMode
    /\ outMode' = consoleFlagsOutput
    /\ inMode' = consoleFlagsInput
    /\ readers' = Append(readers, NewReader(counter))
    /\ ret' = Returned("setupTerminal", << >>, << >>)
    /\ UNCHANGED << keys, stderrMode, inited, ttyinChannel, counter, mutex,
                    pc, nonblock, histVars >>

SetupTerminal ==
    /\ pc = "idle"
    /\ inited
    /\ Len(readers) < MaxReaders
    /\ outMode' = consoleFlagsOutput
    /\ inMode' = consoleFlagsInput
    /\ readers' = Append(readers, NewReader(counter))
    /\ ret' = Returned("setupTerminal", << >>, << >>)
    /\ UNCHANGED << keys, stderrMode, savedVars, inited, ttyinChannel, counter, mutex,
                    pc, nonblock, histVars >>

\* restoreTerminal is entered and then waits for r.mutex
RestoreTerminalCall ==
    /\ pc = "idle"
    /\ inited
    /\ counter < MaxCounter
    /\ pc' = "restoreTerminal"
    /\ UNCHANGED << deviceVars, savedVars, inited, ttyinChannel, counter, mutex,
                    readers, nonblock, ret, histVars >>

\* restoreTerminal that forgets the output mode
RestoreTerminalInputOnly ==
    /\ pc = "restoreTerminal"
    /\ mutex = 0
    /\ counter' = counter + 1
    /\ inMode' = origStateInput \cup {VTI}
    /\ pc' = "idle"
    /\ ret' = Returned("restoreTerminal", << >>, << >>)
    /\ stale' = Len(ttyinChannel)
    /\ UNCHANGED << keys, stderrMode, outMode, savedVars, inited, ttyinChannel, mutex,
                    readers, nonblock, pushed, returned, nread, readFailed >>

\* restoreTerminal that does not take r.mutex
RestoreTerminalNoLock ==
    /\ pc = "restoreTerminal"
    /\ counter' = counter + 1
    /\ inMode' = origStateInput \cup {VTI}
    /\ outMode' = origStateOutput
    /\ pc' = "idle"
    /\ ret' = Returned("restoreTerminal", << >>, << >>)
    /\ stale' = Len(ttyinChannel)
    /\ UNCHANGED << keys, stderrMode, savedVars, inited, ttyinChannel, mutex, readers,
                    nonblock, pushed, returned, nread, readFailed >>

\* restoreTerminal that writes the saved input mode verbatim
RestoreTerminalVerbatim ==
    /\ pc = "restoreTerminal"
    /\ mutex = 0
    /\ counter' = counter + 1
    /\ inMode' = origStateInput
    /\ outMode' = origStateOutput
    /\ pc' = "idle"
    /\ ret' = Returned("restoreTerminal", << >>, << >>)
    /\ stale' = Len(ttyinChannel)
    /\ UNCHANGED << keys, stderrMode, savedVars, inited, ttyinChannel, mutex, readers,
                    nonblock, pushed, returned, nread, readFailed >>

\* Lock .. Unlock of restoreTerminal; nothing else runs under the mutex meanwhile
RestoreTerminal ==
    /\ pc = "restoreTerminal"
    /\ mutex = 0
    /\ counter' = counter + 1
    /\ inMode' = origStateInput \cup {VTI}
    /\ outMode' = origStateOutput
    /\ pc' = "idle"
    /\ ret' = Returned("restoreTerminal", << >>, << >>)
    /\ stale' = Len(ttyinChannel)
    /\ UNCHANGED << keys, stderrMode, savedVars, inited, ttyinChannel, mutex, readers,
                    nonblock, pushed, returned, nread, readFailed >>

\* ------------------------------------------------------ reader goroutine
SetReader(i, r) == [readers EXCEPT ![i] = r]

\* the k-th byte the input device delivers (k = 1, 2, ...)
DeviceByte(k) == keys[((k - 1) % Len(keys)) + 1]

\* util.Read returned without error: it took the next byte off the device
ReaderReadOk(i) ==
    /\ readers[i].pc = "read"
    /\ nread < MaxRead
    /\ readers' = SetReader(i, [readers[i] EXCEPT !.pc = "lock",
                                                  !.b = DeviceByte(nread + 1)])
    /\ nread' = nread + 1
    /\ UNCHANGED << deviceVars, savedVars, inited, ttyinChannel, counter, mutex,
                    pc, nonblock, ret, pushed, stale, returned, readFailed >>

\* a reader that gives up on a read error
ReaderReadErrBreak(i) ==
    /\ readers[i].pc = "read"
    /\ readFailed' = TRUE
    /\ readers' = SetReader(i, [readers[i] EXCEPT !.pc = "done"])
    /\ UNCHANGED << deviceVars, savedVars, inited, ttyinChannel, counter, mutex,
                    pc, nonblock, ret, pushed, stale, returned, nread >>

\* util.Read returned an error: the loop goes round again
ReaderReadErr(i) ==
    /\ readers[i].pc = "read"
    /\ readFailed' = TRUE
    /\ UNCHANGED << deviceVars, savedVars, inited, ttyinChannel, counter, mutex,
                    readers, pc, nonblock, ret, pushed, stale, returned, nread >>

\* the reader without its generation check
ReaderLockNoCheck(i) ==
    /\ readers[i].pc = "lock"
    /\ mutex = 0
    /\ readers' = SetReader(i, [readers[i] EXCEPT !.pc = "push"])
    /\ mutex' = i
    /\ UNCHANGED << deviceVars, savedVars, inited, ttyinChannel, counter,
                    pc, nonblock, ret, histVars >>

\* r.mutex.Lock() and the generation check
ReaderLock(i) ==
    /\ readers[i].pc = "lock"
    /\ mutex = 0
    /\ IF readers[i].current # counter
       THEN /\ readers' = SetReader(i, [readers[i] EXCEPT !.pc = "done"])
            /\ mutex' = 0
       ELSE /\ readers' = SetReader(i, [readers[i] EXCEPT !.pc = "push"])
            /\ mutex' = i
    /\ UNCHANGED << deviceVars, savedVars, inited, ttyinChannel, counter,
                    pc, nonblock, ret, histVars >>

\* a send that overwrites the oldest byte of a full channel
ReaderPushOverwrite(i) ==
    /\ readers[i].pc = "push"
    /\ ttyinChannel' = IF Len(ttyinChannel) < ChanCap
                       THEN Append(ttyinChannel, readers[i].b)
                       ELSE Append(Tail(ttyinChannel), readers[i].b)
    /\ pushed' = Append(pushed, readers[i].b)
    /\ readers' = SetReader(i, [readers[i] EXCEPT !.pc = "setmode"])
    /\ UNCHANGED << deviceVars, savedVars, inited, counter, mutex,
                    pc, nonblock, ret, stale, returned, nread, readFailed >>

\* r.ttyinChannel <- b[0], blocking while the buffer is full
ReaderPush(i) ==
    /\ readers[i].pc = "push"
    /\ Len(ttyinChannel) < ChanCap
    /\ ttyinChannel' = Append(ttyinChannel, readers[i].b)
    /\ pushed' = Append(pushed, readers[i].b)
    /\ readers' = SetReader(i, [readers[i] EXCEPT !.pc = "setmode"])
    /\ UNCHANGED << deviceVars, savedVars, inited, counter, mutex,
                    pc, nonblock, ret, stale, returned, nread, readFailed >>

\* SetConsoleMode(inHandle, consoleFlagsInput); r.mutex.Unlock()
ReaderSetMode(i) ==
    /\ readers[i].pc = "setmode"
    /\ inMode' = consoleFlagsInput
    /\ mutex' = 0
    /\ readers' = SetReader(i, [readers[i] EXCEPT !.pc = "read", !.b = NoByte])
    /\ UNCHANGED << keys, stderrMode, outMode, savedVars, inited, ttyinChannel, counter,
                    pc, nonblock, ret, histVars >>

\* ------------------------------------------------------------ input gate
GetchCall(nb) ==
    /\ pc = "idle"
    /\ inited
    /\ pc' = "getch"
    /\ nonblock' = nb
    /\ UNCHANGED << deviceVars, savedVars, inited, ttyinChannel, counter, mutex,
                    readers, ret, histVars >>

\* a receive that takes the newest byte instead of the oldest
GetchRecvLast ==
    /\ pc = "getch"
    /\ ttyinChannel # << >>
    /\ ttyinChannel' = SubSeq(ttyinChannel, 1, Len(ttyinChannel) - 1)
    /\ returned' = Append(returned, ttyinChannel[Len(ttyinChannel)])
    /\ stale' = IF stale > 0 THEN stale - 1 ELSE 0
    /\ ret' = Returned("getch", [nonblock |-> nonblock],
                       [val |-> ttyinChannel[Len(ttyinChannel)], ok |-> TRUE])
    /\ pc' = "idle"
    /\ nonblock' = FALSE
    /\ UNCHANGED << deviceVars, savedVars, inited, counter, mutex, readers,
                    pushed, nread, readFailed >>

\* bc := <-r.ttyinChannel (either branch)
GetchRecv ==
    /\ pc = "getch"
    /\ ttyinChannel # << >>
    /\ ttyinChannel' = Tail(ttyinChannel)
    /\ returned' = Append(returned, Head(ttyinChannel))
    /\ stale' = IF stale > 0 THEN stale - 1 ELSE 0
    /\ ret' = Returned("getch", [nonblock |-> nonblock],
                       [val |-> Head(ttyinChannel), ok |-> TRUE])
    /\ pc' = "idle"
    /\ nonblock' = FALSE
    /\ UNCHANGED << deviceVars, savedVars, inited, counter, mutex, readers,
                    pushed, nread, readFailed >>

\* a timeout that is also armed in the blocking branch
GetchTimeoutAlways ==
    /\ pc = "getch"
    /\ ttyinChannel = << >>
    /\ ret' = Returned("getch", [nonblock |-> nonblock], [val |-> 0, ok |-> FALSE])
    /\ pc' = "idle"
    /\ nonblock' = FALSE
    /\ UNCHANGED << deviceVars, savedVars, inited, ttyinChannel, counter, mutex,
                    readers, histVars >>

\* case <-time.After(timeoutInterval * time.Millisecond): the timer wins only
\* while the receive case is not ready
GetchTimeout ==
    /\ pc = "getch"
    /\ nonblock
    /\ ttyinChannel = << >>
    /\ ret' = Returned("getch", [nonblock |-> nonblock], [val |-> 0, ok |-> FALSE])
    /\ pc' = "idle"
    /\ nonblock' = FALSE
    /\ UNCHANGED << deviceVars, savedVars, inited, ttyinChannel, counter, mutex,
                    readers, histVars >>

\* ---------------------------------------------------------------- geometry
\* r.maxHeightFunc: the max-height policy handed to the renderer
maxHeightFunc(limit, h) == IF limit = 0 \/ h < limit THEN h ELSE limit

\* getEnv(name, defaultValue): the variable's integer value, or the default
getEnv(value, defaultValue) == IF value = 0 THEN defaultValue ELSE value

TermSize(lines, columns, pxWidth, pxHeight) ==
    [Lines |-> lines, Columns |-> columns, PxWidth |-> pxWidth, PxHeight |-> pxHeight]

\* Size whose fallback height bypasses the max-height policy
SizeOfFallbackUncapped(ok, bufferInfo, columns, lines, limit) ==
    LET w == IF ~ok THEN getEnv(columns, defaultWidth)
             ELSE bufferInfo.Right - bufferInfo.Left
        h == IF ~ok THEN getEnv(lines, defaultHeight)
             ELSE maxHeightFunc(limit, bufferInfo.Bottom - bufferInfo.Top)
    IN  TermSize(h, w, 0, 0)

SizeOf(ok, bufferInfo, columns, lines, limit) ==
    LET w == IF ~ok THEN getEnv(columns, defaultWidth)
             ELSE bufferInfo.Right - bufferInfo.Left
        h == IF ~ok THEN maxHeightFunc(limit, getEnv(lines, defaultHeight))
             ELSE maxHeightFunc(limit, bufferInfo.Bottom - bufferInfo.Top)
    IN  TermSize(h, w, 0, 0)

Size(ok, bufferInfo, columns, lines, limit) ==
    /\ pc = "idle"
    /\ inited
    /\ ret' = Returned("Size",
                       [ok |-> ok, Window |-> bufferInfo, COLUMNS |-> columns,
                        LINES |-> lines, limit |-> limit],
                       SizeOf(ok, bufferInfo, columns, lines, limit))
    /\ UNCHANGED << deviceVars, savedVars, inited, ttyinChannel, counter, mutex,
                    readers, pc, nonblock, histVars >>

findOffsetOf(ok, cursor) ==
    IF ~ok THEN [row |-> -1, col |-> -1]
    ELSE [row |-> cursor.Y, col |-> cursor.X]

FindOffset(ok, cursor) ==
    /\ pc = "idle"
    /\ inited
    /\ ret' = Returned("findOffset", [ok |-> ok, CursorPosition |-> cursor],
                       findOffsetOf(ok, cursor))
    /\ UNCHANGED << deviceVars, savedVars, inited, ttyinChannel, counter, mutex,
                    readers, pc, nonblock, histVars >>

\* ------------------------------------------------------------ next-state
Reader ==
    \E i \in 1..Len(readers) :
        \/ ReaderReadOk(i)
        \/ ReaderLock(i)
        \/ ReaderPush(i)
        \/ ReaderSetMode(i)

\* a failed read changes nothing but the history variable readFailed: it is
\* a stuttering step of Spec and a step of its own in SpecReadErr
ReaderErr == \E i \in 1..Len(readers) : ReaderReadErr(i)

Lifecycle ==
    \/ \E outOk, inOk \in BOOLEAN : InitPlatform(outOk, inOk)
    \/ SetupTerminal
    \/ RestoreTerminalCall
    \/ RestoreTerminal
    \/ ClosePlatform

Getch ==
    \/ \E nb \in BOOLEAN : GetchCall(nb)
    \/ GetchRecv
    \/ GetchTimeout

Probe ==
    \/ \E g1, s, g2 \in BOOLEAN : IsLightRendererSupported(g1, s, g2)
    \/ \E g1, s, g2 \in BOOLEAN : \E c \in ConEmuPIDs : \E t \in TcellTruecolors :
           DefaultTheme(g1, s, g2, c, t)

Geometry ==
    \* a failed query leaves bufferInfo zeroed; the environment is read only then
    \/ \E w \in Windows : \E lim \in HeightLimits : Size(TRUE, w, 0, 0, lim)
    \/ \E c, l \in EnvInts : \E lim \in HeightLimits : Size(FALSE, ZeroInfo, c, l, lim)
    \/ \E cur \in Cursors : FindOffset(TRUE, cur)
    \/ FindOffset(FALSE, ZeroPos)

Next == Lifecycle \/ Reader \/ Getch

Spec == Init /\ [][Next]_vars

NextProbe == Probe \/ Lifecycle

SpecProbe == Init /\ [][NextProbe]_vars

\* geometry queries during one enter cycle, after its restoreTerminal and
\* after closePlatform
NextGeom ==
    \/ Geometry
    \/ \E outOk, inOk \in BOOLEAN : InitPlatform(outOk, inOk)
    \/ RestoreTerminalCall
    \/ RestoreTerminal
    \/ ClosePlatform
    \/ Reader
    \/ Getch

SpecGeom == Init /\ [][NextGeom]_vars

\* one enter cycle and what follows its restoreTerminal calls, with device
\* reads that fail
NextReadErr ==
    \/ \E outOk, inOk \in BOOLEAN : InitPlatform(outOk, inOk)
    \/ RestoreTerminalCall
    \/ RestoreTerminal
    \/ Reader
    \/ ReaderErr
    \/ Getch

SpecReadErr == Init /\ [][NextReadErr]_vars

\* Scheduling: a goroutine that can run does run (the send, the mode write
\* and Unlock, a ready receive, an expired timer), and a goroutine waiting in
\* r.mutex.Lock() gets the mutex if it is released again and again.  Nothing
\* makes the device deliver a byte or the caller call the adapter.
Fairness ==
    /\ \A i \in 1..MaxReaders :
          /\ SF_vars(i \in 1..Len(readers) /\ ReaderLock(i))
          /\ WF_vars(i \in 1..Len(readers) /\ ReaderPush(i))
          /\ WF_vars(i \in 1..Len(readers) /\ ReaderSetMode(i))
    /\ SF_vars(RestoreTerminal)
    /\ WF_vars(GetchRecv)
    /\ WF_vars(GetchTimeout)

SpecFair == Spec /\ Fairness

\* ----------------------------------------------------------------- claims
ReaderIds == 1..Len(readers)

\* ---------------------------------------------------------------------
\* C1 (generation isolation): a byte is sent on ttyinChannel only by a
\* reader whose captured generation equals counter; a reader that finds
\* counter changed when it gets the mutex (its read completed, or its
\* lock was granted, after restoreTerminal returned) terminates without
\* sending, so its byte never reaches the channel and never reaches getch.
C1_GenerationIsolation ==
    [][ /\ \A i \in ReaderIds :
             (readers[i].pc = "lock" /\ readers'[i].pc # "lock"
                 /\ readers[i].current # counter)
             => /\ readers'[i].pc = "done"
                /\ UNCHANGED << ttyinChannel, pushed, returned >>
        /\ pushed' # pushed
             => \E i \in ReaderIds :
                   /\ readers[i].pc = "push"
                   /\ readers[i].current = counter
                   /\ pushed' = Append(pushed, readers[i].b)
                   /\ ttyinChannel' = Append(ttyinChannel, readers[i].b) ]_vars

\* a stale reader has completed a read and has dropped the byte, after
\* restoreTerminal returned, and nothing was ever sent
C1_Witness ==
    /\ ret.op = "restoreTerminal"
    /\ \E i \in ReaderIds :
          /\ readers[i].pc = "done"
          /\ readers[i].b # NoByte
          /\ readers[i].current < counter
    /\ pushed = << >>
    /\ ttyinChannel = << >>

\* ---------------------------------------------------------------------
\* C2 as stated: after restoreTerminal has returned, the input mode and the
\* output mode both equal the modes initPlatform saved.
C2_Stated ==
    ret.op = "restoreTerminal"
        => /\ inMode = origStateInput
           /\ outMode = origStateOutput

\* C2 as amended: after restoreTerminal has returned (and until the caller
\* calls the adapter again), the output mode equals origStateOutput and the
\* input mode equals origStateInput with ENABLE_VIRTUAL_TERMINAL_INPUT added,
\* whatever setupTerminal/restoreTerminal calls came before and whatever the
\* readers do meanwhile.
C2_RestoredModes ==
    ret.op = "restoreTerminal"
        => /\ inMode = origStateInput \cup {VTI}
           /\ outMode = origStateOutput

\* restoreTerminal returned after initPlatform and a further setupTerminal,
\* the saved input mode lacks the passthrough bit, and a reader has since
\* completed a read
C2_Witness ==
    /\ ret.op = "restoreTerminal"
    /\ Len(readers) = 2
    /\ VTI \notin origStateInput
    /\ inMode # origStateInput
    /\ \E i \in ReaderIds : readers[i].pc = "done"

\* ---------------------------------------------------------------------
\* C3 as stated: once closePlatform has returned, and for as long as the
\* caller calls nothing else, the input and output modes equal the saved
\* original modes, whatever the readers do.
C3_Stated ==
    ret.op = "closePlatform"
        => /\ inMode = origStateInput
           /\ outMode = origStateOutput

C5_GetchReturn ==
    [][ (pc = "getch" /\ pc' = "idle")
          => /\ ret'.op = "getch"
             /\ ret'.arg.nonblock = nonblock
             /\ \/ /\ ret'.val.ok
                   /\ ttyinChannel # << >>
                   /\ ret'.val.val = Head(ttyinChannel)
                   /\ ttyinChannel' = Tail(ttyinChannel)
                \/ /\ ~ret'.val.ok
                   /\ ret'.val.val = 0
                   /\ nonblock
                   /\ ttyinChannel = << >>
                   /\ UNCHANGED << ttyinChannel, counter, inMode, outMode,
                                   stderrMode >> ]_vars

C5_NonblockReturns ==
    (pc = "getch" /\ nonblock) => (ENABLED GetchRecv \/ ENABLED GetchTimeout)

C5_Getch == []C5_NonblockReturns /\ C5_GetchReturn

\* a nonblocking getch has timed out on an empty channel
C5_Witness ==
    /\ ret = Returned("getch", [nonblock |-> TRUE], [val |-> 0, ok |-> FALSE])
    /\ ttyinChannel = << >>
    /\ nread > 0
\* ---------------------------------------------------------------------
\* C6 as stated: a getch made after a restoreTerminal and the setupTerminal
\* that follows it never returns a byte that was sent before that
\* restoreTerminal (the channel a new enter cycle starts with holds none).
\* Reentered: the latest setupTerminal came after the latest restoreTerminal.
Reentered ==
    /\ counter > 0
    /\ readers # << >>
    /\ readers[Len(readers)].current = counter

C6_Stated ==
    [][ (pc = "getch" /\ pc' = "idle" /\ ret'.val.ok /\ Reentered)
          => stale = 0 ]_vars

\* ---------------------------------------------------------------------
\* C7: initPlatform returns an error exactly when the mode read of the
\* output device or of the input device fails; on an error no console mode
\* changes, no channel is made, no reader is started and counter is
\* unchanged; on success both modes were saved, the channel is new and
\* setupTerminal has run (modes applied, one reader started under counter).
C7_InitPlatform ==
    [][ (~inited /\ ret'.op = "initPlatform")
          => /\ ret'.val \in {"err", "nil"}
             /\ (ret'.val = "err") <=> (~ret'.arg.outOk \/ ~ret'.arg.inOk)
             /\ ret'.val = "err"
                  => UNCHANGED << stderrMode, outMode, inMode, inited, ttyinChannel,
                                  readers, counter, mutex >>
             /\ ret'.val = "nil"
                  => /\ inited'
                     /\ origStateOutput' = outMode
                     /\ origStateInput' = inMode
                     /\ ttyinChannel' = << >>
                     /\ outMode' = consoleFlagsOutput
                     /\ inMode' = consoleFlagsInput
                     /\ readers' = Append(readers, NewReader(counter))
                     /\ counter' = counter ]_vars

\* initPlatform failed on the input device after reading the output mode
C7_Witness ==
    /\ ret = Returned("initPlatform", [outOk |-> TRUE, inOk |-> FALSE], "err")
    /\ ~inited
    /\ readers = << >>
    /\ origStateOutput = outMode

\* ---------------------------------------------------------------------
\* C8 as stated: after IsLightRendererSupported has returned (on its own or
\* inside DefaultTheme), whichever way it returned, the console mode of
\* stderr is the mode it had before the call.
C8_Stated ==
    ret.op \in {"IsLightRendererSupported", "DefaultTheme"}
        => stderrMode = ret.arg.oldState

\* ---------------------------------------------------------------------
\* C9: DefaultTheme returns Dark256 exactly when the probe succeeded (first
\* mode read, provisional set and re-read all succeeded and the flag is in
\* the mode read back), ConEmuPID is unset and TCELL_TRUECOLOR is not
\* "disable"; otherwise it returns Default16.
FlagStuck(a) ==
    VTP \in (IF a.setok THEN a.oldState \cup {VTP} ELSE a.oldState)

Policy(limit, h) == IF limit # 0 /\ limit <= h THEN limit ELSE h

C10_Values ==
    /\ ret.op = "findOffset" /\ ~ret.arg.ok
         => ret.val = [row |-> -1, col |-> -1]
    /\ ret.op = "Size"
         => /\ ret.val.PxWidth = 0
            /\ ret.val.PxHeight = 0
            /\ ~ret.arg.ok
                 => /\ ret.val.Columns
                         = (IF ret.arg.COLUMNS = 0 THEN defaultWidth
                            ELSE ret.arg.COLUMNS)
                    /\ ret.val.Lines
                         = Policy(ret.arg.limit,
                                  IF ret.arg.LINES = 0 THEN defaultHeight
                                  ELSE ret.arg.LINES)
            /\ ret.arg.ok
                 => ret.val.Lines
                      = Policy(ret.arg.limit,
                               ret.arg.Window.Bottom - ret.arg.Window.Top)

C10_Frame ==
    [][ (ret'.op \in {"Size", "findOffset"} /\ ret' # ret)
          => UNCHANGED << stderrMode, outMode, inMode, ttyinChannel, counter >> ]_vars

C10_Geometry == []C10_Values /\ C10_Frame

\* Size fell back to the defaults with a height limit of 10 while bytes
\* were waiting in the channel
C10_Witness ==
    /\ ret.op = "Size"
    /\ ~ret.arg.ok
    /\ ret.arg.COLUMNS = 0 /\ ret.arg.LINES = 0 /\ ret.arg.limit = 10
    /\ ret.val = TermSize(10, defaultWidth, 0, 0)
    /\ ttyinChannel # << >>
    /\ counter > 0

\* ---------------------------------------------------------------------
\* C11: whatever the state it is called in, restoreTerminal leaves the input
\* mode at origStateInput with ENABLE_VIRTUAL_TERMINAL_INPUT added and the
\* output mode at origStateOutput and adds 1 to counter; a call that follows
\* another restoreTerminal directly leaves the modes as the first one left
\* them; and a call made while no reader is running gets the lock.
AllReadersDone == \A i \in ReaderIds : readers[i].pc = "done"

C11_Effect ==
    [][ (pc = "restoreTerminal" /\ pc' = "idle")
          => /\ inMode' = origStateInput \cup {VTI}
             /\ outMode' = origStateOutput
             /\ counter' = counter + 1
             /\ ret.op = "restoreTerminal"
                  => UNCHANGED << inMode, outMode >> ]_vars

C11_SafeWithoutReader ==
    (pc = "restoreTerminal" /\ AllReadersDone) => ENABLED RestoreTerminal

C11_RestoreTerminal == []C11_SafeWithoutReader /\ C11_Effect

\* restoreTerminal has returned twice with no setupTerminal in between, the
\* only reader has terminated, and the saved input mode lacks the bit
C11_Witness ==
    /\ ret.op = "restoreTerminal"
    /\ counter = 2
    /\ Len(readers) = 1
    /\ AllReadersDone
    /\ VTI \notin origStateInput
    /\ inMode = origStateInput \cup {VTI}
    /\ outMode = origStateOutput

\* ---------------------------------------------------------------------
\* C12: between the return of restoreTerminal and the next setupTerminal
\* (Paused), no reader is between its generation check and its Unlock, the
\* mutex is free, and the input mode restoreTerminal wrote stays: no step
\* other than a closePlatform call changes it, whatever the readers of any
\* generation do.
Paused ==
    /\ counter > 0
    /\ \A i \in ReaderIds : readers[i].current # counter

C12_NoReaderInside ==
    Paused => /\ mutex = 0
              /\ \A i \in ReaderIds : readers[i].pc \notin {"push", "setmode"}

C12_ModeKept ==
    [][ /\ (Paused /\ Paused' /\ ret'.op # "closePlatform"
                /\ inMode = origStateInput \cup {VTI})
             => inMode' = origStateInput \cup {VTI}
        /\ (pc = "restoreTerminal" /\ pc' = "idle")
             => Paused' /\ inMode' = origStateInput \cup {VTI} ]_vars

C12_Atomic == []C12_NoReaderInside /\ C12_ModeKept

\* a reader sent ESC under the lock, restoreTerminal then ran, and the same
\* reader completed its next read afterwards and terminated; the input mode
\* is the restored one, not consoleFlagsInput
C12_Witness ==
    /\ Paused
    /\ ret.op = "restoreTerminal"
    /\ pushed = << 27 >>
    /\ \E i \in ReaderIds : readers[i].pc = "done" /\ readers[i].b = 91
    /\ inMode = origStateInput \cup {VTI}
    /\ inMode # consoleFlagsInput

\* ---------------------------------------------------------------------
\* C13: a reader terminates only at its generation check, holding a byte it
\* read successfully and finding counter different from the value it was
\* started under; a failed device read leaves the reader where it was (it
\* reads again) and changes neither the mutex, the channel, a console mode,
\* counter nor anything returned to the caller.
C13_ReadError ==
    [][ /\ \A i \in ReaderIds :
             (readers[i].pc # "done" /\ readers'[i].pc = "done")
             => /\ readers[i].pc = "lock"
                /\ readers[i].b # NoByte
                /\ readers[i].current # counter
        /\ readFailed' # readFailed
             => /\ \E i \in ReaderIds : readers[i].pc = "read"
                /\ UNCHANGED << readers, mutex, ttyinChannel, pushed, inMode, outMode,
                                stderrMode, counter, pc, ret, returned, nread >> ]_vars

\* the only reader's first read failed, it read again, and the byte of the
\* second read was sent
C13_Witness ==
    /\ readFailed
    /\ Len(readers) = 1
    /\ nread = 1
    /\ readers[1].pc = "setmode"
    /\ pushed = << 27 >>

\* ---------------------------------------------------------------------
\* C14 as stated: a reader that has completed a read after restoreTerminal
\* made counter differ from the value it was started under eventually
\* terminates.
C14_Stated ==
    \A i \in 1..MaxReaders :
        (i \in ReaderIds /\ readers[i].pc = "lock" /\ readers[i].current # counter)
            ~> (i \in ReaderIds /\ readers[i].pc = "done")

\* ---------------------------------------------------------------------
\* C15: counter never decreases; it changes only in the step in which
\* restoreTerminal runs under the mutex, by exactly 1, and every
\* restoreTerminal does change it; initPlatform, setupTerminal,
\* closePlatform, getch and the reader steps leave it alone.
C15_Counter ==
    [][ /\ counter' >= counter
        /\ counter' # counter
             => /\ pc = "restoreTerminal"
                /\ ret'.op = "restoreTerminal"
                /\ mutex = 0 /\ mutex' = 0
                /\ readers' = readers
                /\ counter' = counter + 1
        /\ (pc = "restoreTerminal" /\ pc' = "idle") => counter' = counter + 1 ]_vars

\* two restoreTerminal calls, a setupTerminal, reader sends, a getch and a
\* closePlatform have happened
C15_Witness ==
    /\ counter = 2
    /\ Len(readers) = 2
    /\ pushed # << >>
    /\ returned # << >>
    /\ ret.op = "closePlatform"

\* ---------------------------------------------------------------------
\* C16 as stated: at most one reader that has not terminated was started
\* under the current value of counter.
LiveCurrent ==
    { i \in ReaderIds : readers[i].pc # "done" /\ readers[i].current = counter }

C16_Stated == Cardinality(LiveCurrent) <= 1

\* ---------------------------------------------------------------------
\* C17: the channel never holds more than its capacity; a reader leaves its
\* send only by appending the byte it holds, once, to a channel that has
\* room, and until then it keeps the byte and the mutex; no reader step
\* removes or replaces a byte of the channel; and the send is ready
\* whenever the channel has room.
C17_Bounded ==
    /\ Len(ttyinChannel) <= ChanCap
    /\ \A i \in ReaderIds :
          readers[i].pc = "push"
            => /\ mutex = i
               /\ readers[i].b # NoByte
               /\ ENABLED ReaderPush(i) <=> Len(ttyinChannel) < ChanCap

C17_Send ==
    [][ \A i \in ReaderIds :
          readers[i].pc = "push"
            => \/ /\ readers'[i] = readers[i]
                  /\ \/ ttyinChannel' = ttyinChannel
                     \/ /\ pc = "getch"
                        /\ ttyinChannel' = Tail(ttyinChannel)
                  /\ pushed' = pushed
               \/ /\ readers'[i].pc = "setmode"
                  /\ Len(ttyinChannel) < ChanCap
                  /\ ttyinChannel' = Append(ttyinChannel, readers[i].b)
                  /\ pushed' = Append(pushed, readers[i].b) ]_vars

C17_BackPressure == []C17_Bounded /\ C17_Send

\* the channel is full, a current reader holds the next byte in front of
\* it, and a blocking getch is about to free a slot
C17_Witness ==
    /\ Len(ttyinChannel) = ChanCap
    /\ \E i \in ReaderIds :
          /\ readers[i].pc = "push"
          /\ readers[i].current = counter
          /\ readers[i].b = 65
    /\ ttyinChannel = << 27, 91 >>
    /\ pc = "getch"
    /\ ~nonblock

\* ---------------------------------------------------------------------
\* C18: origStateOutput and origStateInput change only in an initPlatform
\* step, taken before any setupTerminal has run, which stores the modes the
\* console has at that moment; once initPlatform has succeeded no step
\* changes them.
C18_SavedModes ==
    [][ /\ inited => UNCHANGED savedVars
        /\ savedVars' # savedVars
             => /\ ret'.op = "initPlatform"
                /\ readers = << >>
                /\ counter = 0
                /\ origStateOutput' = outMode
                /\ origStateInput' \in {origStateInput, inMode}
        /\ (~inited /\ inited')
             => /\ origStateOutput' = outMode
                /\ origStateInput' = inMode ]_vars

\* the saved modes are still those of the untouched console after a
\* restoreTerminal, a second setupTerminal and a reader's mode write
C18_Witness ==
    /\ inited
    /\ origStateInput = {"ENABLE_PROCESSED_INPUT", "ENABLE_LINE_INPUT"}
    /\ origStateOutput = {"ENABLE_PROCESSED_OUTPUT", "ENABLE_WRAP_AT_EOL_OUTPUT"}
    /\ counter = 1
    /\ Len(readers) = 2
    /\ readers[2].pc = "read"
    /\ pushed = << 27 >>
    /\ inMode = consoleFlagsInput
    /\ outMode = consoleFlagsOutput

\* ---------------------------------------------------------------------
\* C19 as stated: a restoreTerminal call that has been made eventually
\* returns, whether or not getch is called meanwhile.
C19_Stated == (pc = "restoreTerminal") ~> (pc = "idle")

\* ---------------------------------------------------------------------
\* C20 as stated: once setupTerminal has run again after restoreTerminal,
\* every device read that completes is the read of a reader of the current
\* generation (so the byte goes on to be sent, not dropped).
C20_Stated ==
    [][ (Reentered /\ nread' # nread)
          => \E i \in ReaderIds :
                /\ readers[i].pc = "read"
                /\ readers'[i].pc = "lock"
                /\ readers[i].current = counter ]_vars
====
